---- MODULE Spec2Model ----
(***************************************************************************)
(* Model of api/main.py: the growth calculators (compound_interest,        *)
(* sip_growth), the number formatter (abbreviate_large_numbers), the chart *)
(* renderer (generate_graph) with the pyplot state it goes through, and    *)
(* the /investments handler (calculate_investments).                       *)
(*                                                                         *)
(* Python floats are IEEE-754 binary64.  They are modelled bit-exactly: a  *)
(* float is a sign, a 53-bit significand and an exponent, and every        *)
(* arithmetic operation rounds to nearest, ties to even.  Significands     *)
(* are wider than TLC's integers, so they are kept as sequences of 15-bit  *)
(* limbs, least significant limb first.                                    *)
(*                                                                         *)
(* A value that is used more than once is a parameter of the operator      *)
(* that uses it: the steps of a computation are operators that call the    *)
(* next step.                                                              *)
(***************************************************************************)
EXTENDS Integers, Sequences, FiniteSets, TLC

----------------------------------------------------------------------------
(* Natural numbers of any size: sequences of limbs, least significant      *)
(* first, no leading zero limb; the empty sequence is 0.                   *)

\* two limbs' product plus a carry stays below 2^31
LimbBits == 16 - 1
LimbBase == 2 ^ LimbBits

Max2(a, b) == IF a >= b THEN a ELSE b
Min2(a, b) == IF a <= b THEN a ELSE b

Limb(a, i) == IF i >= 1 /\ i <= Len(a) THEN a[i] ELSE 0

\* the index of the most significant nonzero limb, 0 when there is none
HighIdx(a) ==
    LET nz == {i \in 1..Len(a) : a[i] /= 0}
    IN  IF nz = {} THEN 0 ELSE CHOOSE i \in nz : \A j \in nz : j <= i

BNorm(a) == SubSeq(a, 1, HighIdx(a))

\* 0 <= n < 2^31
BFromInt(n) ==
    BNorm(<<n % LimbBase, (n \div LimbBase) % LimbBase, n \div (LimbBase * LimbBase)>>)

\* the carry into limb i of a + b: a lower limb overflows and every limb
\* between it and limb i passes the carry on
CarryIn(a, b, i) ==
    \E j \in 1..(i - 1) :
        /\ Limb(a, j) + Limb(b, j) >= LimbBase
        /\ \A k \in (j + 1)..(i - 1) : Limb(a, k) + Limb(b, k) = LimbBase - 1

BAdd(a, b) ==
    IF a = <<>> THEN b
    ELSE IF b = <<>> THEN a
    ELSE BNorm([i \in 1..(Max2(Len(a), Len(b)) + 1) |->
             (Limb(a, i) + Limb(b, i) + (IF CarryIn(a, b, i) THEN 1 ELSE 0))
                 % LimbBase])

\* the borrow out of limb i of a - b
BorrowIn(a, b, i) ==
    \E j \in 1..(i - 1) :
        /\ Limb(a, j) < Limb(b, j)
        /\ \A k \in (j + 1)..(i - 1) : Limb(a, k) = Limb(b, k)

\* a - b for a >= b
BSub(a, b) ==
    IF a = <<>> \/ b = <<>> THEN a
    ELSE BNorm([i \in 1..Len(a) |->
             (a[i] - Limb(b, i) - (IF BorrowIn(a, b, i) THEN 1 ELSE 0)
                 + LimbBase) % LimbBase])

\* -1, 0, 1 as a < b, a = b, a > b
BCmp(a, b) ==
    IF Len(a) < Len(b) THEN -1
    ELSE IF Len(a) > Len(b) THEN 1
    ELSE LET df == {i \in 1..Len(a) : a[i] /= b[i]}
         IN  IF df = {} THEN 0
             ELSE LET i == CHOOSE i \in df : \A j \in df : j <= i
                  IN  IF a[i] < b[i] THEN -1 ELSE 1

Zeros(n) == [i \in 1..n |-> 0]

BShlLimbs(a, n) == IF a = <<>> THEN <<>> ELSE Zeros(n) \o a

\* a * k for 0 <= k < LimbBase: the low halves of the limb products, plus
\* their high halves one limb up
BMulSmall(a, k) ==
    IF k = 0 \/ a = <<>> THEN <<>>
    ELSE BAdd(BNorm([i \in 1..Len(a) |-> (a[i] * k) % LimbBase]),
              BShlLimbs(BNorm([i \in 1..Len(a) |-> (a[i] * k) \div LimbBase]), 1))

\* a * (limbs lo..hi of b), shifted to their place
RECURSIVE BMulRange(_, _, _, _)
BMulRange(a, b, lo, hi) ==
    IF lo = hi THEN BShlLimbs(BMulSmall(a, b[lo]), lo - 1)
    ELSE BAdd(BMulRange(a, b, lo, (lo + hi) \div 2),
              BMulRange(a, b, (lo + hi) \div 2 + 1, hi))

BMul(a, b) ==
    IF a = <<>> \/ b = <<>> THEN <<>> ELSE BMulRange(a, b, 1, Len(b))

\* the number of bits of a limb
IntBitLen(n) ==
    IF n = 0 THEN 0 ELSE CHOOSE k \in 1..LimbBits : n \div (2 ^ (k - 1)) = 1

BBitLen(a) ==
    IF a = <<>> THEN 0 ELSE LimbBits * (Len(a) - 1) + IntBitLen(a[Len(a)])

\* bit i of a, bit 0 the least significant
BBit(a, i) == (Limb(a, (i \div LimbBits) + 1) \div (2 ^ (i % LimbBits))) % 2

BShl(a, k) == BShlLimbs(BMulSmall(a, 2 ^ (k % LimbBits)), k \div LimbBits)

\* floor(a / 2^k)
BShr(a, k) ==
    LET q == k \div LimbBits
        r == k % LimbBits
        n == Len(a) - q
    IN  IF n <= 0 THEN <<>>
        ELSE BNorm([i \in 1..n |->
                 (a[q + i] \div (2 ^ r))
                 + (Limb(a, q + i + 1) % (2 ^ r)) * (2 ^ (LimbBits - r))])

\* whether the low k bits of a are all zero
BLowZero(a, k) ==
    LET q == k \div LimbBits
        r == k % LimbBits
    IN  /\ \A i \in 1..Min2(q, Len(a)) : a[i] = 0
        /\ Limb(a, q + 1) % (2 ^ r) = 0

(* Long division by b, whose top limb has its top bit set.  One step: the  *)
(* next limb of the dividend comes down to the remainder (cur), the        *)
(* quotient digit is estimated from the top limbs (est, at most 2 too      *)
(* large) and put right (d), and it goes in front of the quotient q.       *)
BDivPut(b, cur, q, d) == [q |-> <<d>> \o q, r |-> BSub(cur, BMulSmall(b, d))]

BDivFix(b, cur, q, est) ==
    BDivPut(b, cur, q,
            IF BCmp(BMulSmall(b, est), cur) <= 0 THEN est
            ELSE IF BCmp(BMulSmall(b, est - 1), cur) <= 0 THEN est - 1
            ELSE est - 2)

BDivDigit(b, cur, q) ==
    BDivFix(b, cur, q,
            Min2(LimbBase - 1,
                 (Limb(cur, Len(b) + 1) * LimbBase + Limb(cur, Len(b))) \div b[Len(b)]))

BDivStep(limb, b, st) ==
    IF st.r = <<>> /\ limb = 0 THEN [q |-> <<0>> \o st.q, r |-> <<>>]
    ELSE BDivDigit(b, BNorm(<<limb>> \o st.r), st.q)

\* the limbs of a from the top down to limb i have been divided; the top
\* Len(b) - 1 limbs are below b and start as the remainder
RECURSIVE BDivAt(_, _, _)
BDivAt(a, b, i) ==
    IF i > Len(a) - Len(b) + 1
    THEN [q |-> <<>>, r |-> BNorm(SubSeq(a, Max2(i, 1), Len(a)))]
    ELSE BDivStep(a[i], b, BDivAt(a, b, i + 1))

BDivResult(st, sh) == [q |-> BNorm(st.q), r |-> BShr(st.r, sh)]

BDivShifted(a, b, sh) == BDivResult(BDivAt(BShl(a, sh), BShl(b, sh), 1), sh)

\* quotient and remainder of a by b > 0
BDivMod(a, b) == BDivShifted(a, b, LimbBits - IntBitLen(b[Len(b)]))

----------------------------------------------------------------------------
(* Python float: IEEE-754 binary64.  A finite value is                     *)
(* (-1)^s * m * 2^e with m below 2^MantBits; a normal number has exactly   *)
(* MantBits bits in m, a subnormal has e = ExpMin and fewer, zero has      *)
(* m = <<>> and e = 0.  k tells finite values from the infinities, NaN and *)
(* a raised exception ("err").                                             *)

MantBits == 53
ExpMin == -1074
\* every finite value is below 2^ExpTop
ExpTop == 1024

Fin(s, m, e) == [k |-> "fin", s |-> s, m |-> m, e |-> e]
FZero(s) == Fin(s, <<>>, 0)
FInf(s) == [k |-> "inf", s |-> s, m |-> <<>>, e |-> 0]
FNaN == [k |-> "nan", s |-> 0, m |-> <<>>, e |-> 0]
Raised(name) == [k |-> "err", s |-> 0, m |-> <<>>, e |-> 0, name |-> name]

IsErr(a) == a.k = "err"
IsZero(a) == a.k = "fin" /\ a.m = <<>>

(* Rounding (-1)^s * (m + f) * 2^e to a float, where 0 < f < 1 when sticky *)
(* and f = 0 otherwise.  Mode "near" is to the nearest, ties to even (what *)
(* the hardware does); "down" and "up" are the floats just below and just  *)
(* above in magnitude.  Overflow gives an infinity.                        *)

\* whether dropping the low sh bits of m rounds the magnitude up
RoundsUp(mode, m, sticky, sh) ==
    LET half == BBit(m, sh - 1) = 1
        rest == sticky \/ ~BLowZero(m, sh - 1)
    IN  CASE mode = "near" -> half /\ (rest \/ BBit(m, sh) = 1)
          [] mode = "down" -> FALSE
          [] mode = "up" -> half \/ rest

PackRange(s, q, e) ==
    IF e + MantBits > ExpTop THEN FInf(s) ELSE Fin(s, q, e)

\* the rounded significand q may have one bit too many
PackCarry(s, q, e) ==
    IF q = <<>> THEN FZero(s)
    ELSE IF BBitLen(q) > MantBits THEN PackRange(s, BShr(q, 1), e + 1)
    ELSE PackRange(s, q, e)

\* sh: the bits to drop (to add, when negative)
PackShift(mode, s, m, sticky, e, sh) ==
    IF sh <= 0
    THEN (IF e + sh + MantBits > ExpTop THEN FInf(s)
          ELSE Fin(s, BShl(m, 0 - sh), e + sh))
    ELSE PackCarry(s,
                   BAdd(BShr(m, sh),
                        IF RoundsUp(mode, m, sticky, sh) THEN <<1>> ELSE <<>>),
                   e + sh)

PackMode(mode, s, m, sticky, e) ==
    IF m = <<>> THEN FZero(s)
    ELSE PackShift(mode, s, m, sticky, e,
                   IF e + (BBitLen(m) - MantBits) < ExpMin THEN ExpMin - e
                   ELSE BBitLen(m) - MantBits)

Pack(s, m, sticky, e) == PackMode("near", s, m, sticky, e)

\* int -> float, exact for |n| < 2^31
FromInt(n) ==
    Pack(IF n >= 0 THEN 0 ELSE 1, BFromInt(IF n >= 0 THEN n ELSE 0 - n), FALSE, 0)

FNeg(a) == IF a.k \in {"fin", "inf"} THEN [a EXCEPT !.s = 1 - a.s] ELSE a

\* -1, 0, 1 as |a| < |b|, |a| = |b|, |a| > |b| for finite a, b
MagCmp(a, b) ==
    IF a.m = <<>> \/ b.m = <<>>
    THEN (IF a.m = b.m THEN 0 ELSE IF a.m = <<>> THEN -1 ELSE 1)
    ELSE LET ta == a.e + BBitLen(a.m)
             tb == b.e + BBitLen(b.m)
             e == Min2(a.e, b.e)
         IN  IF ta < tb THEN -1
             ELSE IF ta > tb THEN 1
             ELSE BCmp(BShl(a.m, a.e - e), BShl(b.m, b.e - e))

\* -1, 0, 1 as a < b, a = b, a > b, for a and b finite or infinite
FCmp(a, b) ==
    LET sa == IF IsZero(a) THEN 0 ELSE 1 - 2 * a.s
        sb == IF IsZero(b) THEN 0 ELSE 1 - 2 * b.s
        mag == IF a.k = "inf" /\ b.k = "inf" THEN 0
               ELSE IF a.k = "inf" THEN 1
               ELSE IF b.k = "inf" THEN -1
               ELSE MagCmp(a, b)
    IN  IF sa /= sb THEN (IF sa < sb THEN -1 ELSE 1)
        ELSE sa * mag

Ordered(a, b) == a.k \in {"fin", "inf"} /\ b.k \in {"fin", "inf"}
FLt(a, b) == Ordered(a, b) /\ FCmp(a, b) < 0
FLe(a, b) == Ordered(a, b) /\ FCmp(a, b) <= 0
FGt(a, b) == FLt(b, a)
FGe(a, b) == FLe(b, a)
FEq(a, b) == Ordered(a, b) /\ FCmp(a, b) = 0

\* beyond this many bits of exponent difference the smaller operand of a sum
\* only decides the rounding direction
AddSpan == 2 * MantBits + 10

\* hi + lo, with hi's significand mh at lo's exponent, and c comparing the
\* magnitudes
AddSigned(hi, lo, mh, c) ==
    IF hi.s /= lo.s /\ c = 0 THEN FZero(0)
    ELSE Pack(IF hi.s = lo.s \/ c > 0 THEN hi.s ELSE lo.s,
              IF hi.s = lo.s THEN BAdd(mh, lo.m)
              ELSE IF c > 0 THEN BSub(mh, lo.m)
              ELSE BSub(lo.m, mh),
              FALSE, lo.e)

AddCmp(hi, lo, mh) == AddSigned(hi, lo, mh, BCmp(mh, lo.m))

AddMant(hi, lo) == AddCmp(hi, lo, BShl(hi.m, hi.e - lo.e))

\* hi has the larger exponent
AddAligned(hi, lo) ==
    AddMant(hi, IF hi.e - lo.e > AddSpan
                THEN Fin(lo.s, <<1>>, hi.e - AddSpan) ELSE lo)

AddFin(a, b) ==
    IF a.m = <<>> THEN (IF b.m = <<>> THEN FZero(a.s * b.s) ELSE b)
    ELSE IF b.m = <<>> THEN a
    ELSE AddAligned(IF a.e >= b.e THEN a ELSE b, IF a.e >= b.e THEN b ELSE a)

FAdd(a, b) ==
    IF IsErr(a) THEN a ELSE IF IsErr(b) THEN b
    ELSE IF a.k = "nan" \/ b.k = "nan" THEN FNaN
    ELSE IF a.k = "inf" THEN (IF b.k = "inf" /\ b.s /= a.s THEN FNaN ELSE a)
    ELSE IF b.k = "inf" THEN b
    ELSE AddFin(a, b)

FSub(a, b) == FAdd(a, FNeg(b))

FMul(a, b) ==
    IF IsErr(a) THEN a ELSE IF IsErr(b) THEN b
    ELSE IF a.k = "nan" \/ b.k = "nan" THEN FNaN
    ELSE IF a.k = "inf" \/ b.k = "inf"
         THEN (IF IsZero(a) \/ IsZero(b) THEN FNaN ELSE FInf((a.s + b.s) % 2))
    ELSE Pack((a.s + b.s) % 2, BMul(a.m, b.m), FALSE, a.e + b.e)

\* bits of quotient computed before rounding
DivBits == MantBits + 3

DivPack(a, b, k, d) == Pack((a.s + b.s) % 2, d.q, d.r /= <<>>, a.e - b.e - k)

DivShifted(a, b, k) == DivPack(a, b, k, BDivMod(BShl(a.m, k), b.m))

DivFin(a, b) == DivShifted(a, b, Max2(0, DivBits + BBitLen(b.m) - BBitLen(a.m)))

\* a / b.  np: the operation is numpy's (an operand is a numpy scalar), which
\* warns and returns nan or inf on a zero divisor; Python's own float division
\* raises ZeroDivisionError
FDiv(a, b, np) ==
    IF IsErr(a) THEN a ELSE IF IsErr(b) THEN b
    ELSE IF a.k = "nan" \/ b.k = "nan" THEN FNaN
    ELSE IF IsZero(b)
         THEN (IF ~np THEN Raised("ZeroDivisionError")
               ELSE IF IsZero(a) THEN FNaN
               ELSE FInf((a.s + b.s) % 2))
    ELSE IF a.k = "inf" THEN (IF b.k = "inf" THEN FNaN ELSE FInf((a.s + b.s) % 2))
    ELSE IF b.k = "inf" THEN FZero((a.s + b.s) % 2)
    ELSE IF IsZero(a) THEN FZero((a.s + b.s) % 2)
    ELSE DivFin(a, b)

\* what a decimal literal num/den (num >= 0, den > 0) parses to
Lit(num, den) == FDiv(FromInt(num), FromInt(den), TRUE)

\* working precision of pow: the result is exact to far below one ulp, and the
\* low bit keeps whether anything was cut off
PowBits == MantBits + 22

\* q with its low bit set unless nothing was cut off
CutOdd(q, exact, e) ==
    [m |-> IF exact \/ q[1] % 2 = 1 THEN q ELSE [q EXCEPT ![1] = q[1] + 1],
     e |-> e]

CutBits(x, sh) ==
    IF sh <= 0 THEN x ELSE CutOdd(BShr(x.m, sh), BLowZero(x.m, sh), x.e + sh)

Cut(x) == CutBits(x, BBitLen(x.m) - PowBits)

MulCut(x, y) == Cut([m |-> BMul(x.m, y.m), e |-> x.e + y.e])

PowOdd(sq, x, odd) == IF odd THEN MulCut(sq, x) ELSE sq

\* h^2, or h^2 * x.  A power whose exponent has left the floats' range for
\* good is not carried further: the result is an infinity or zero whatever
\* follows
PowStep(h, x, odd) ==
    IF h.e > ExpTop \/ h.e < 2 * ExpMin THEN h
    ELSE PowOdd(MulCut(h, h), x, odd)

\* x^n for n >= 1 by squaring
RECURSIVE PowCut(_, _)
PowCut(x, n) ==
    IF n = 1 THEN x ELSE PowStep(PowCut(x, n \div 2), x, n % 2 = 1)

\* Python's float ** raises OverflowError when the result overflows, numpy's
\* returns inf
PowRaise(r, np) == IF r.k = "inf" /\ ~np THEN Raised("OverflowError") ELSE r

PowPack(p, s, np, libm) == PowRaise(PackMode(libm, s, p.m, FALSE, p.e), np)

\* a ** n for an integer n >= 0: C pow.  The C library promises an error
\* below one ulp, not the nearest float: an exact result is returned exactly,
\* an inexact one as either neighbour; libm says which ("near", "down", "up")
FPow(a, n, np, libm) ==
    IF IsErr(a) THEN a
    ELSE IF n = 0 THEN FromInt(1)
    ELSE IF a.k = "nan" THEN FNaN
    ELSE IF a.k = "inf" THEN FInf(IF n % 2 = 1 THEN a.s ELSE 0)
    ELSE IF IsZero(a) THEN FZero(IF n % 2 = 1 THEN a.s ELSE 0)
    ELSE PowPack(PowCut([m |-> a.m, e |-> a.e], n),
                 IF n % 2 = 1 THEN a.s ELSE 0, np, libm)

----------------------------------------------------------------------------
(* Formatting a float with a fixed number of decimals, as f"{v:.1f}" and   *)
(* f"{v:.0f}" do: the exact binary value is rounded to the decimal place,  *)
(* ties to even.                                                           *)

\* quotient and remainder of a by a small k (0 < k < LimbBase), from the top
\* limb down; r is the remainder so far and q the quotient limbs so far
RECURSIVE BDivSmallAt(_, _, _, _, _)
BDivSmallAt(a, k, i, r, q) ==
    IF i = 0 THEN [q |-> BNorm(q), r |-> r]
    ELSE BDivSmallAt(a, k, i - 1, (r * LimbBase + a[i]) % k,
                     <<(r * LimbBase + a[i]) \div k>> \o q)

BDivSmall(a, k) == BDivSmallAt(a, k, Len(a), 0, <<>>)

\* four decimal digits of n < 10000
Digits4(n) ==
    ToString(n \div 1000) \o ToString((n \div 100) % 10)
        \o ToString((n \div 10) % 10) \o ToString(n % 10)

\* the decimal digits of a > 0, four at a time from the right
RECURSIVE DecDigits(_)
RECURSIVE DecJoin(_)
DecJoin(d) ==
    IF d.q = <<>> THEN ToString(d.r) ELSE DecDigits(d.q) \o Digits4(d.r)

DecDigits(a) == DecJoin(BDivSmall(a, 10000))

DecStr(a) == IF a = <<>> THEN "0" ELSE DecDigits(a)

\* M * 2^e rounded to an integer, ties to even
RoundShift(M, e) ==
    IF e >= 0 THEN BShl(M, e)
    ELSE BAdd(BShr(M, 0 - e),
              IF BBit(M, 0 - e - 1) = 1
                 /\ (~BLowZero(M, 0 - e - 1) \/ BBit(M, 0 - e) = 1)
              THEN <<1>> ELSE <<>>)

\* |v| * 10^d rounded to an integer, from v's exact binary value
ScaledRound(v, d) == RoundShift(BMulSmall(v.m, 10 ^ d), v.e)

\* the last digit of N is the decimal
FmtPoint(sign, qr) == sign \o DecStr(qr.q) \o "." \o ToString(qr.r)

FmtDigits(sign, N, d) ==
    IF d = 0 THEN sign \o DecStr(N) ELSE FmtPoint(sign, BDivSmall(N, 10))

\* f"{v:.df}" for d in {0, 1}
FmtFixed(v, d) ==
    IF v.k = "nan" THEN "nan"
    ELSE IF v.k = "inf" THEN (IF v.s = 1 THEN "-inf" ELSE "inf")
    ELSE FmtDigits(IF v.s = 1 THEN "-" ELSE "", ScaledRound(v, d), d)

----------------------------------------------------------------------------
(* The calculators and the formatter.  np tells whether the time argument  *)
(* is a numpy integer (as the handler passes it, from np.arange) or a      *)
(* Python int: with a numpy operand the power and what follows are numpy   *)
(* operations.  libm is the C library's rounding of pow.                   *)

\* the product where the code takes the power
compound_interest_product(principal, rate, time, np, libm) ==
    FMul(FMul(principal, FAdd(FromInt(1), rate)), FromInt(time))

compound_interest(principal, rate, time, np, libm) ==
    FMul(principal, FPow(FAdd(FromInt(1), rate), time, np, libm))

\* the return statement of sip_growth
sip_growth_value(monthly_investment, monthly_rate, months, np, libm) ==
    FMul(FMul(monthly_investment,
              FDiv(FSub(FPow(FAdd(FromInt(1), monthly_rate), months, np, libm),
                         FromInt(1)),
                   monthly_rate, np)),
         FAdd(FromInt(1), monthly_rate))

sip_growth(monthly_investment, rate, time, np, libm) ==
    sip_growth_value(monthly_investment, FDiv(rate, FromInt(12), FALSE),
                     time * 12, np, libm)

\* the value without a unit, whatever its size
abbreviate_plain(x, pos) == "$" \o FmtFixed(x, 0)

\* x / 1_000_000 and x / 1_000, to one decimal
Abbreviated(x, unit, suffix) ==
    "$" \o FmtFixed(FDiv(x, FromInt(unit), TRUE), 1) \o suffix

abbreviate_large_numbers(x, pos) ==
    IF FGe(x, FromInt(1000000)) THEN Abbreviated(x, 1000000, "M")
    ELSE IF FGe(x, FromInt(1000)) THEN Abbreviated(x, 1000, "k")
    ELSE "$" \o FmtFixed(x, 0)

----------------------------------------------------------------------------
(* State.                                                                  *)
(*   calc    a caller of the calculators: the function it calls, the       *)
(*           arguments, the value (or exception) of the latest call and of *)
(*           the call before it, which was for the year before             *)
(*   fmt     the latest call of abbreviate_large_numbers: where it was     *)
(*           called from, its arguments and the text it returned           *)
(*   thread  the threads that run the code: what each is executing, with   *)
(*           its local variables                                           *)
(*   figs    pyplot's figure registry, in the order pyplot keeps it: the   *)
(*           last figure is the current one                                *)
(*   clib    the C library the server runs on: which neighbour its pow     *)
(*           returns for an inexact result                                 *)

VARIABLES calc, fmt, thread, figs, clib

vars == <<calc, fmt, thread, figs, clib>>

NoValue == [k |-> "none", s |-> 0, m |-> <<>>, e |-> 0]
PyNone == [kind |-> "None"]

Zero == FZero(0)
One == FromInt(1)
\* the largest float and the smallest positive one
MaxFloat == Fin(0, BSub(BShl(<<1>>, MantBits), <<1>>), ExpTop - MantBits)
MinFloat == Fin(0, <<1>>, ExpMin)
\* 2^e as a float, for e in the normal range
Pow2(e) == Fin(0, BShl(<<1>>, MantBits - 1), e - (MantBits - 1))
\* finite, and not so small that it has lost precision
IsNormal(a) == a.k = "fin" /\ BBitLen(a.m) = MantBits
IsValue(a) == a.k \in {"fin", "inf", "nan"}
IsFinite(a) == a.k = "fin"

PowRoundings == {"near", "down", "up"}
Threads == {1, 2}

IdleCalc == [fn |-> "none", principal |-> Zero, rate |-> Zero, years |-> 0,
             np |-> FALSE, result |-> NoValue, prev |-> NoValue]

IdleFmt == [site |-> "none", x |-> Zero, pos |-> PyNone, text |-> ""]

\* a thread that runs nothing.  pc is where it is; lump and monthly are the
\* request's parameters, lump_graph and sip_graph the handler's locals and
\* response what it answered; mode tells who called generate_graph ("lump" and
\* "sip": the handler, for that series; "direct": another caller), data, title
\* and colors are its arguments, fig is the figure it created, base64_img the
\* encoded image, and outcome what a direct call returned or raised.  built and charts record for which
\* modes the handler built a series and called generate_graph, buffer the
\* state of the call's byte buffer, and calls the number of direct calls made
IdleThread ==
    [pc |-> "idle", lump |-> Zero, monthly |-> Zero,
     lump_graph |-> PyNone, sip_graph |-> PyNone, response |-> PyNone,
     mode |-> "none", data |-> <<>>, title |-> "", colors |-> <<>>,
     fig |-> 0, base64_img |-> PyNone, outcome |-> PyNone,
     built |-> {}, charts |-> {}, buffer |-> "none",
     calls |-> 0]

IdleThreads == [t \in Threads |-> IdleThread]

----------------------------------------------------------------------------
(* The calculators called directly, year after year.                       *)

MaxYears == 3

Principals == {Zero, FromInt(1000), MinFloat, MaxFloat, FInf(0)}
Rates == {Zero, Pow2(-60), Pow2(-52), Lit(10, 100), Lit(15, 100),
          FNeg(Lit(1, 2)), Pow2(1000)}

Calculate(fn, principal, rate, time, np, libm) ==
    IF fn = "compound_interest"
    THEN compound_interest(principal, rate, time, np, libm)
    ELSE sip_growth(principal, rate, time, np, libm)

\* a caller with its amount and rate; np: it passes the year as a numpy
\* integer, as the handler does, and not as a Python int
CalcInit ==
    /\ \E principal \in Principals, rate \in Rates, np \in BOOLEAN :
        calc = [IdleCalc EXCEPT !.principal = principal, !.rate = rate, !.np = np]
    /\ fmt = IdleFmt
    /\ thread = IdleThreads
    /\ figs = <<>>
    /\ clib = "near"

\* the first call, for year 0
CallCompound ==
    /\ calc.fn = "none"
    /\ \E libm \in PowRoundings :
        calc' = [calc EXCEPT
            !.fn = "compound_interest",
            !.result = compound_interest(calc.principal, calc.rate, 0, calc.np, libm)]
    /\ UNCHANGED <<fmt, thread, figs, clib>>

CallSip ==
    /\ calc.fn = "none"
    /\ \E libm \in PowRoundings :
        calc' = [calc EXCEPT
            !.fn = "sip_growth",
            !.result = sip_growth(calc.principal, calc.rate, 0, calc.np, libm)]
    /\ UNCHANGED <<fmt, thread, figs, clib>>

\* the same call for the next year
CallNextYear ==
    /\ calc.fn /= "none"
    /\ calc.years < MaxYears
    /\ \E libm \in PowRoundings :
        calc' = [calc EXCEPT
            !.years = calc.years + 1,
            !.prev = calc.result,
            !.result = Calculate(calc.fn, calc.principal, calc.rate,
                                 calc.years + 1, calc.np, libm)]
    /\ UNCHANGED <<fmt, thread, figs, clib>>

CalcNext == CallCompound \/ CallSip \/ CallNextYear

SpecCalc == CalcInit /\ [][CalcNext]_vars

\* contribution * years * 12, as floats
SimpleSum(monthly, years) == FMul(FMul(monthly, FromInt(years)), FromInt(12))

(* C1: called with annual rate 0 and a contribution >= 0, sip_growth raises  *)
(* no division by zero and returns contribution * years * 12.  The code      *)
(* divides by the monthly rate, which is 0: this does not hold.              *)
C1_ZeroRateSimpleSum ==
    (/\ calc.fn = "sip_growth"
     /\ calc.rate = Zero
     /\ IsFinite(calc.principal))
    => /\ IsValue(calc.result)
       /\ calc.result = SimpleSum(calc.principal, calc.years)

(* C7 as written: compound_interest for year 0 is the principal (principal   *)
(* >= 0, rate > -1), and for principal > 0 and rate > 0 each year's value is *)
(* strictly greater than the year before's.                                  *)
C7_StrictlyIncreasing ==
    (/\ calc.fn = "compound_interest"
     /\ FGe(calc.principal, Zero)
     /\ FGt(calc.rate, FNeg(One)))
    => /\ calc.years = 0 => calc.result = calc.principal
       /\ (calc.years >= 1 /\ FGt(calc.principal, Zero) /\ FGt(calc.rate, Zero))
          => (IsValue(calc.result) /\ FGt(calc.result, calc.prev))

(* C7 as the code has it: compound_interest for year 0 is the principal      *)
(* (principal >= 0, rate > -1); for principal > 0 and rate > 0, whenever two *)
(* consecutive years both return a value the later one is not smaller, and   *)
(* it is strictly greater when the rate is at least 10% and both values are  *)
(* finite with full precision (not overflowed, not subnormal).               *)
C7_IncreasingInFloats ==
    (/\ calc.fn = "compound_interest"
     /\ FGe(calc.principal, Zero)
     /\ FGt(calc.rate, FNeg(One)))
    => /\ calc.years = 0 => calc.result = calc.principal
       /\ (/\ calc.years >= 1
           /\ FGt(calc.principal, Zero)
           /\ FGt(calc.rate, Zero)
           /\ IsValue(calc.result)
           /\ IsValue(calc.prev))
          => /\ FGe(calc.result, calc.prev)
             /\ (/\ FGe(calc.rate, Lit(10, 100))
                 /\ IsNormal(calc.result)
                 /\ IsNormal(calc.prev))
                => FGt(calc.result, calc.prev)

\* compound_interest has been called for a later year at 10% on 1000 and
\* the value has grown
C7_Witness ==
    /\ calc.fn = "compound_interest"
    /\ calc.years >= 2
    /\ calc.principal = FromInt(1000)
    /\ calc.rate = Lit(10, 100)
    /\ IsNormal(calc.result)
    /\ FGt(calc.result, calc.prev)

(* C8: for a contribution > 0, an annual rate > 0 and years >= 1, sip_growth *)
(* returns more than contribution * years * 12.  For a small rate the code   *)
(* loses the growth to rounding: this does not hold.                         *)
C8_ExceedsSimpleSum ==
    (/\ calc.fn = "sip_growth"
     /\ calc.years >= 1
     /\ FGt(calc.principal, Zero)
     /\ FGt(calc.rate, Zero)
     /\ IsFinite(SimpleSum(calc.principal, calc.years)))
    => /\ IsValue(calc.result)
       /\ FGt(calc.result, SimpleSum(calc.principal, calc.years))


----------------------------------------------------------------------------
(* The formatter called from its two call sites in generate_graph: for the *)
(* annotation of a milestone amount, with pos None, and as the value       *)
(* axis's FuncFormatter, which matplotlib calls with a tick's value and    *)
(* its position.                                                           *)

\* whole amounts on and around the formatter's thresholds and around the
\* places where a rounded decimal changes
WholeAmounts ==
    {0, 1, 499, 500, 999, 1000, 1001, 1249, 1250, 1251, 1500, 99949, 99950,
     999949, 999950, 999999, 1000000, 1049999, 1050000, 1250000, 2500000,
     1024250, 1024250000, 2147483647}

\* the floats next to a > 0, one unit in the last place away
Above(a) == Pack(a.s, BAdd(a.m, <<1>>), FALSE, a.e)
Below(a) == Pack(a.s, BSub(a.m, <<1>>), FALSE, a.e)

Amounts ==
    {FromInt(n) : n \in WholeAmounts}
    \cup {FDiv(FromInt(n), FromInt(2), TRUE) : n \in WholeAmounts}
    \cup {Above(FromInt(n)) : n \in WholeAmounts \ {0}}
    \cup {Below(FromInt(n)) : n \in WholeAmounts \ {0}}
    \cup {FromInt(-1), FromInt(-1500), FInf(0), FNaN}

TickPositions == {0, 1, 2}

FmtInit ==
    /\ fmt = IdleFmt
    /\ calc = IdleCalc
    /\ thread = IdleThreads
    /\ figs = <<>>
    /\ clib = "near"

\* abbreviate_large_numbers(row["Amount"], None).  The function keeps nothing
\* from one call to the next: a behaviour is one call
Annotate ==
    /\ fmt.site = "none"
    /\ \E x \in Amounts :
        fmt' = [site |-> "annotation", x |-> x, pos |-> PyNone,
                text |-> abbreviate_large_numbers(x, PyNone)]
    /\ UNCHANGED <<calc, thread, figs, clib>>

\* FuncFormatter(abbreviate_large_numbers) called for a tick
FormatTick ==
    /\ fmt.site = "none"
    /\ \E x \in Amounts, pos \in TickPositions :
        fmt' = [site |-> "tick", x |-> x, pos |-> pos,
                text |-> abbreviate_large_numbers(x, pos)]
    /\ UNCHANGED <<calc, thread, figs, clib>>

FmtNext == Annotate \/ FormatTick

SpecFmt == FmtInit /\ [][FmtNext]_vars

\* the whole numbers nearest to q + r / den: one, or two when it is halfway
NearestBy(q, c) ==
    IF c < 0 THEN {q}
    ELSE IF c > 0 THEN {BAdd(q, <<1>>)}
    ELSE {q, BAdd(q, <<1>>)}

NearestOf(d, den) == NearestBy(d.q, BCmp(BShl(d.r, 1), den))

\* the whole numbers nearest to v * 10^d, for a finite v >= 0, by division
Nearest(v, d) ==
    IF v.m = <<>> THEN {<<>>}
    ELSE IF v.e >= 0 THEN {BShl(BMulSmall(v.m, 10 ^ d), v.e)}
    ELSE NearestOf(BDivMod(BMulSmall(v.m, 10 ^ d), BShl(<<1>>, 0 - v.e)),
                   BShl(<<1>>, 0 - v.e))

\* n tenths in decimal
Tenths(n) == DecStr(BDivSmall(n, 10).q) \o "." \o ToString(BDivSmall(n, 10).r)

\* what the abbreviated form of a finite x >= 0 may be
AbbreviatedForms(x) ==
    IF FGe(x, FromInt(1000000))
    THEN {"$" \o Tenths(n) \o "M" :
             n \in Nearest(FDiv(x, FromInt(1000000), TRUE), 1)}
    ELSE IF FGe(x, FromInt(1000))
    THEN {"$" \o Tenths(n) \o "k" :
             n \in Nearest(FDiv(x, FromInt(1000), TRUE), 1)}
    ELSE {"$" \o DecStr(n) : n \in Nearest(x, 0)}

(* C6: for a value x >= 0 abbreviate_large_numbers returns "$", x / 1e6 to  *)
(* one decimal and "M" when x >= 1,000,000; "$", x / 1e3 to one decimal and  *)
(* "k" when 1,000 <= x < 1,000,000; "$" and x to no decimals below 1,000;    *)
(* 500 gives "$500", 1500 "$1.5k" and 2,500,000 "$2.5M"; and this is so at   *)
(* both call sites, the annotations and the axis ticks.                      *)
C6_AbbreviatedForm ==
    (/\ fmt.site \in {"annotation", "tick"}
     /\ IsFinite(fmt.x)
     /\ FGe(fmt.x, Zero))
    => /\ fmt.text \in AbbreviatedForms(fmt.x)
       /\ fmt.x = FromInt(500) => fmt.text = "$500"
       /\ fmt.x = FromInt(1500) => fmt.text = "$1.5k"
       /\ fmt.x = FromInt(2500000) => fmt.text = "$2.5M"

\* a tick at 1500 and an annotation of 2,500,000 have been formatted
C6_Witness ==
    \/ fmt.site = "tick" /\ fmt.x = FromInt(1500) /\ fmt.text = "$1.5k"
    \/ fmt.site = "annotation" /\ fmt.x = FromInt(2500000) /\ fmt.text = "$2.5M"

----------------------------------------------------------------------------
(* The series the /investments handler builds.                             *)

\* np.arange(1, 26)
time_years == [i \in 1..25 |-> i]
rates == <<Lit(10, 100), Lit(12, 100), Lit(15, 100)>>
colors == ("10%" :> "blue") @@ ("12%" :> "yellow") @@ ("15%" :> "red")

\* the value of up to three limbs
BToInt(b) == Limb(b, 1) + Limb(b, 2) * LimbBase + Limb(b, 3) * LimbBase * LimbBase

\* int(a) for a finite a of magnitude below 2^31: the fraction is dropped
IntOf(a) ==
    (1 - 2 * a.s) * BToInt(IF a.e >= 0 THEN BShl(a.m, a.e) ELSE BShr(a.m, 0 - a.e))

\* f"{int(rate * 100)}%"
Label(rate) == ToString(IntOf(FMul(rate, FromInt(100)))) \o "%"

\* what one pass of the inner loop appends; year is a numpy integer
Point(fn, amount, rate, year, libm) ==
    [Year |-> year, Amount |-> Calculate(fn, amount, rate, year, TRUE, libm),
     Rate |-> Label(rate)]

\* the inner loop, over the years
SeriesForRate(fn, amount, rate, libm) ==
    [i \in 1..Len(time_years) |-> Point(fn, amount, rate, time_years[i], libm)]

\* the outer loop, over the rates from the i-th on
RECURSIVE SeriesFrom(_, _, _, _)
SeriesFrom(fn, amount, i, libm) ==
    IF i > Len(rates) THEN <<>>
    ELSE SeriesForRate(fn, amount, rates[i], libm)
         \o SeriesFrom(fn, amount, i + 1, libm)

\* the loops with the years outside
BuildSeriesByYear(fn, amount, libm) ==
    [k \in 1..(Len(rates) * Len(time_years)) |->
        Point(fn, amount, rates[((k - 1) % Len(rates)) + 1],
              time_years[((k - 1) \div Len(rates)) + 1], libm)]

BuildSeries(fn, amount, libm) == SeriesFrom(fn, amount, 1, libm)

\* the amounts of the requests below that are not rejected
LumpSum == FromInt(1000)
MonthlySip == FromInt(500)

\* A series depends on nothing but the calculator, the amount and the C
\* library: the series of these amounts are computed once
SeriesWith(libm) ==
    <<BuildSeries("compound_interest", LumpSum, libm),
      BuildSeries("sip_growth", MonthlySip, libm)>>

RequestSeries ==
    [near |-> SeriesWith("near"), down |-> SeriesWith("down"),
     up |-> SeriesWith("up")]

\* BuildSeries(fn, amount, libm)
SeriesOf(fn, amount, libm) ==
    IF fn = "compound_interest" /\ amount = LumpSum THEN RequestSeries[libm][1]
    ELSE IF fn = "sip_growth" /\ amount = MonthlySip THEN RequestSeries[libm][2]
    ELSE BuildSeries(fn, amount, libm)

----------------------------------------------------------------------------
(* pyplot and generate_graph.  A thread runs generate_graph in the steps   *)
(* between which another thread can run: pyplot's registry is the one      *)
(* thing the steps share.                                                  *)

\* the figure plt.subplots creates in thread t.  users: the threads that have
\* called a method of this figure
NewFigure(num, t) ==
    [num |-> num, owner |-> t, users |-> {t}, title |-> "", lines |-> <<>>,
     texts |-> <<>>, formatter |-> "ScalarFormatter", tight |-> FALSE]

RECURSIVE MaxNum(_)
MaxNum(reg) == IF reg = <<>> THEN 0 ELSE Max2(Head(reg).num, MaxNum(Tail(reg)))

\* pyplot numbers a new figure one above the highest open one
NextNum(reg) == MaxNum(reg) + 1

IndexOf(reg, num) == CHOOSE i \in 1..Len(reg) : reg[i].num = num

marker_years == {20, 25}

RECURSIVE Ascending(_)
Ascending(S) ==
    IF S = {} THEN <<>>
    ELSE Ascending(S \ {CHOOSE i \in S : \A j \in S : j <= i})
         \o <<CHOOSE i \in S : \A j \in S : j <= i>>

\* the rows whose label no earlier row has
FirstAt(data) ==
    Ascending({k \in 1..Len(data) :
                  \A j \in 1..(k - 1) : data[j].Rate /= data[k].Rate})

\* data["Rate"].unique(): the labels in the order they first appear
Unique(data) == [i \in 1..Len(FirstAt(data)) |-> data[FirstAt(data)[i]].Rate]

\* the text ax.text writes above a marker row
Annotation(row) ==
    [x |-> row.Year, y |-> FMul(row.Amount, Lit(108, 100)),
     s |-> abbreviate_large_numbers(row.Amount, PyNone)]

\* l.36: the rows of the marker years
MarkerData(data) == SelectSeq(data, LAMBDA row : row.Year \in marker_years)

\* rows with their texts
Annotated(rows) ==
    [i \in 1..Len(rows) |-> [row |-> rows[i], text |-> Annotation(rows[i])]] \o <<>>

MarkersOf(series) ==
    MarkerData(series.near[1]) \o MarkerData(series.near[2])
    \o MarkerData(series.down[1]) \o MarkerData(series.down[2])
    \o MarkerData(series.up[1]) \o MarkerData(series.up[2])

\* the marker rows of the requests' series with their texts, computed once
RequestAnnotations == Annotated(MarkersOf(RequestSeries))

TextIn(row, known) ==
    IF \E i \in 1..Len(known) : known[i].row = row
    THEN known[CHOOSE i \in 1..Len(known) : known[i].row = row].text
    ELSE Annotation(row)

\* Annotation(row)
AnnotationOf(row) == TextIn(row, RequestAnnotations)

Annotations(rows) == [i \in 1..Len(rows) |-> AnnotationOf(rows[i])]

\* the body of the loop, for a rate that has a color
PlotRate(fig, data, rate, palette) ==
    [fig EXCEPT
        !.lines = Append(@, [label |-> rate, color |-> palette[rate],
                             points |-> Len(SelectSeq(data,
                                            LAMBDA row : row.Rate = rate))]),
        !.texts = @ \o Annotations(SelectSeq(MarkerData(data),
                                        LAMBDA row : row.Rate = rate))]

\* the loop over the rates: colors[rate] raises KeyError for a label that is
\* not a key, before the line is plotted
RECURSIVE PlotRates(_, _, _, _)
PlotRates(fig, data, labels, palette) ==
    IF labels = <<>> THEN [fig |-> fig, error |-> PyNone]
    ELSE IF Head(labels) \notin DOMAIN palette
    THEN [fig |-> fig, error |-> Raised("KeyError")]
    ELSE PlotRates(PlotRate(fig, data, Head(labels), palette), data,
                   Tail(labels), palette)

\* the styling after the loop, of the figure's own axes
Styled(fig, title) ==
    [fig EXCEPT !.formatter = "abbreviate_large_numbers", !.title = title]

\* the bytes fig.savefig writes, and their base64 text
Png(fig) ==
    [kind |-> "png", title |-> fig.title, lines |-> fig.lines,
     texts |-> fig.texts, formatter |-> fig.formatter, tight |-> fig.tight]
Base64(bytes) == [kind |-> "str", encoding |-> "base64", of |-> bytes]

\* generate_graph returns img to its caller: the handler assigns it and goes
\* on, a direct caller has its result
Returned(th, img) ==
    IF th.mode = "lump" THEN [th EXCEPT !.lump_graph = img, !.pc = "sip"]
    ELSE IF th.mode = "sip" THEN [th EXCEPT !.sip_graph = img, !.pc = "respond"]
    ELSE [th EXCEPT !.outcome = img, !.pc = "idle"]

\* an exception leaves generate_graph: nothing in it or in the handler catches
\* it, the server answers 500; a direct caller has the exception
Propagated(th, exc) ==
    IF th.mode \in {"lump", "sip"}
    THEN [th EXCEPT !.response = [status |-> 500], !.pc = "done"]
    ELSE [th EXCEPT !.outcome = exc, !.pc = "idle"]

\* the call generate_graph(data, title, colors)
Called(th, mode, data, title, palette) ==
    [th EXCEPT !.mode = mode, !.data = data, !.title = title,
               !.colors = palette, !.charts = @ \cup {mode},
               !.fig = 0, !.buffer = "none",
               !.base64_img = PyNone, !.outcome = PyNone, !.pc = "subplots"]

\* l.33: plt.subplots registers a new figure and makes it the current one
Subplots(t) ==
    /\ thread[t].pc = "subplots"
    /\ figs' = Append(figs, NewFigure(NextNum(figs), t))
    /\ thread' = [thread EXCEPT ![t].fig = NextNum(figs), ![t].pc = "plot"]
    /\ UNCHANGED <<calc, fmt, clib>>

Plotted(t, i, done) ==
    /\ figs' = [figs EXCEPT ![i] = IF done.error = PyNone
                                   THEN Styled(done.fig, thread[t].title)
                                   ELSE done.fig]
    /\ thread' = [thread EXCEPT ![t] = IF done.error = PyNone
                                       THEN [@ EXCEPT !.pc = "layout"]
                                       ELSE Propagated(@, done.error)]

\* l.35-63: the lines and annotations, then the styling, on the thread's own
\* axes
Plot(t) ==
    /\ thread[t].pc = "plot"
    /\ Plotted(t, IndexOf(figs, thread[t].fig),
               PlotRates(figs[IndexOf(figs, thread[t].fig)], thread[t].data,
                         Unique(thread[t].data), thread[t].colors))
    /\ UNCHANGED <<calc, fmt, clib>>

\* l.64: plt.tight_layout() lays out pyplot's current figure, which is the
\* last of the registry (and a new one when there is none)
TightLayout(t) ==
    /\ thread[t].pc = "layout"
    /\ figs' = IF figs = <<>>
               THEN <<[NewFigure(1, t) EXCEPT !.tight = TRUE]>>
               ELSE [figs EXCEPT ![Len(figs)].tight = TRUE,
                                 ![Len(figs)].users = @ \cup {t}]
    /\ thread' = [thread EXCEPT ![t].pc = "save"]
    /\ UNCHANGED <<calc, fmt, clib>>

\* l.67-71: the thread's own figure is written to a new buffer, the bytes are
\* encoded and the buffer is closed
Save(t) ==
    /\ thread[t].pc = "save"
    /\ thread' = [thread EXCEPT
            ![t].base64_img = Base64(Png(figs[IndexOf(figs, thread[t].fig)])),
            ![t].buffer = "closed",
            ![t].pc = "close"]
    /\ UNCHANGED <<calc, fmt, figs, clib>>

\* l.72-74: plt.close(fig) takes the thread's own figure out of the registry,
\* and the image is returned
CloseFig(t) ==
    /\ thread[t].pc = "close"
    /\ figs' = SelectSeq(figs, LAMBDA f : f.num /= thread[t].fig)
    /\ thread' = [thread EXCEPT ![t] = Returned(@, @.base64_img)]
    /\ UNCHANGED <<calc, fmt, clib>>

----------------------------------------------------------------------------
(* The /investments handler.  FastAPI runs it in a thread of its pool, one *)
(* thread per request in progress.                                         *)

\* Query(..., ge=0)
NonNegative(x) == FGe(x, Zero)
\* lump == 0 and monthly == 0
EitherZero(lump, monthly) == FEq(lump, Zero) \/ FEq(monthly, Zero)
BothZero(lump, monthly) == FEq(lump, Zero) /\ FEq(monthly, Zero)
\* lump > 0, monthly > 0
Always(x) == TRUE
Positive(x) == FGt(x, Zero)

\* a str is true when it is not empty, None is false
Truthy(v) == v.kind = "str"
DataUri(img) == [kind |-> "str", prefix |-> "data:image/png;base64,", payload |-> img]

LumpInputs == {FromInt(-1), Zero, LumpSum}
MonthlyInputs == {FromInt(-1), Zero, MonthlySip}

\* l.78-87: FastAPI validates the parameters and answers 422 itself when one
\* is negative; the handler answers 400 when both are zero
Accepted(th, lump, monthly) ==
    IF ~(NonNegative(lump) /\ NonNegative(monthly))
    THEN [th EXCEPT !.lump = lump, !.monthly = monthly, !.pc = "done",
                    !.response = [status |-> 422]]
    ELSE IF BothZero(lump, monthly)
    THEN [th EXCEPT !.lump = lump, !.monthly = monthly, !.pc = "done",
                    !.response = [status |-> 400]]
    ELSE [th EXCEPT !.lump = lump, !.monthly = monthly, !.pc = "lump"]

Receive(t) ==
    /\ thread[t].pc = "idle"
    /\ \E lump \in LumpInputs, monthly \in MonthlyInputs :
        thread' = [thread EXCEPT ![t] = Accepted(@, lump, monthly)]
    /\ UNCHANGED <<calc, fmt, figs, clib>>

\* l.90-101, up to the call of generate_graph
LumpSection(t) ==
    /\ thread[t].pc = "lump"
    /\ thread' = [thread EXCEPT ![t] =
            IF Positive(@.lump)
            THEN Called([@ EXCEPT !.built = @ \cup {"lump"}], "lump",
                        SeriesOf("compound_interest", @.lump, clib),
                        "Lump Sum Investment Growth Over 25 Years", colors)
            ELSE [@ EXCEPT !.lump_graph = PyNone, !.pc = "sip"]]
    /\ UNCHANGED <<calc, fmt, figs, clib>>

\* l.104-115, up to the call of generate_graph
SipSection(t) ==
    /\ thread[t].pc = "sip"
    /\ thread' = [thread EXCEPT ![t] =
            IF Positive(@.monthly)
            THEN Called([@ EXCEPT !.built = @ \cup {"sip"}], "sip",
                        SeriesOf("sip_growth", @.monthly, clib),
                        "SIP Investment Growth Over 25 Years", colors)
            ELSE [@ EXCEPT !.sip_graph = PyNone, !.pc = "respond"]]
    /\ UNCHANGED <<calc, fmt, figs, clib>>

\* l.118-121
Respond(t) ==
    /\ thread[t].pc = "respond"
    /\ thread' = [thread EXCEPT
            ![t].response =
                [status |-> 200,
                 lump |-> IF Truthy(thread[t].lump_graph)
                          THEN DataUri(thread[t].lump_graph) ELSE PyNone,
                 monthly |-> IF Truthy(thread[t].sip_graph)
                             THEN DataUri(thread[t].sip_graph) ELSE PyNone],
            ![t].pc = "done"]
    /\ UNCHANGED <<calc, fmt, figs, clib>>

\* two requests in progress at once, on a server with either C library
Init ==
    /\ thread = IdleThreads
    /\ figs = <<>>
    /\ clib \in PowRoundings
    /\ calc = IdleCalc
    /\ fmt = IdleFmt

Next ==
    \/ \E t \in Threads : Receive(t)
    \/ \E t \in Threads : LumpSection(t)
    \/ \E t \in Threads : SipSection(t)
    \/ \E t \in Threads : Subplots(t)
    \/ \E t \in Threads : Plot(t)
    \/ \E t \in Threads : TightLayout(t)
    \/ \E t \in Threads : Save(t)
    \/ \E t \in Threads : CloseFig(t)
    \/ \E t \in Threads : Respond(t)

Spec == Init /\ [][Next]_vars

----------------------------------------------------------------------------
(* generate_graph called directly, one call after the other.               *)

MaxCalls == 2

Row(year, amount, label) == [Year |-> year, Amount |-> FromInt(amount), Rate |-> label]

\* no rows; rows of a rate that has a color; rows of a rate that has none;
\* and rows of both
GraphData ==
    {<<>>,
     <<Row(20, 1000, "10%"), Row(25, 2000, "10%")>>,
     <<Row(1, 1500, "20%")>>,
     <<Row(1, 500, "10%"), Row(20, 2500000, "20%")>>}

Palettes == {colors, colors @@ ("20%" :> "green")}

GraphInit ==
    /\ thread = IdleThreads
    /\ figs = <<>>
    /\ clib = "near"
    /\ calc = IdleCalc
    /\ fmt = IdleFmt

\* a call starts when no other is in progress
DirectCall(t) ==
    /\ \A u \in Threads : thread[u].pc = "idle"
    /\ thread[1].calls + thread[2].calls < MaxCalls
    /\ \E data \in GraphData, palette \in Palettes :
        thread' = [thread EXCEPT ![t] =
            Called([@ EXCEPT !.calls = @ + 1], "direct", data, "Growth",
                   palette)]
    /\ UNCHANGED <<calc, fmt, figs, clib>>

GraphNext ==
    \/ \E t \in Threads : DirectCall(t)
    \/ \E t \in Threads : Subplots(t)
    \/ \E t \in Threads : Plot(t)
    \/ \E t \in Threads : TightLayout(t)
    \/ \E t \in Threads : Save(t)
    \/ \E t \in Threads : CloseFig(t)

SpecGraph == GraphInit /\ [][GraphNext]_vars


----------------------------------------------------------------------------
(* Properties of the handler and of generate_graph.                        *)

Finished(t) == thread[t].mode = "direct" /\ thread[t].pc = "idle"

IsRaised(v) == "k" \in DOMAIN v /\ v.k = "err"

(* C2: a generate_graph call on a series with a rate label that is not a key *)
(* of the color mapping ends in a descriptive "unmapped rate" error, never   *)
(* in a missing-key lookup fault.  The code looks the label up unguarded and *)
(* the KeyError leaves the call: this does not hold.                         *)
C2_UnmappedRateError ==
    \A t \in Threads :
        (/\ Finished(t)
         /\ \E i \in 1..Len(thread[t].data) :
                thread[t].data[i].Rate \notin DOMAIN thread[t].colors)
        => /\ IsRaised(thread[t].outcome)
           /\ thread[t].outcome.name = "UnmappedRateError"

IsDataUri(v) ==
    /\ v.kind = "str"
    /\ v.prefix = "data:image/png;base64,"
    /\ v.payload.kind = "str"

Answered(t) == thread[t].pc = "done" /\ thread[t].response.status = 200

(* C3: in the handler each mode is handled by itself.  A mode whose amount   *)
(* is 0 has no series built and no chart generated, and its field of the     *)
(* response is null; a mode whose amount is > 0 has its chart generated and  *)
(* its field is an image data URI, whatever the other amount.                *)
C3_ModesIndependent ==
    \A t \in Threads :
        /\ FEq(thread[t].lump, Zero)
           => "lump" \notin thread[t].built \cup thread[t].charts
        /\ FEq(thread[t].monthly, Zero)
           => "sip" \notin thread[t].built \cup thread[t].charts
        /\ (thread[t].pc = "done" /\ FGt(thread[t].lump, Zero)
                /\ FGe(thread[t].monthly, Zero))
           => Answered(t) /\ "lump" \in thread[t].charts
                /\ IsDataUri(thread[t].response.lump)
        /\ (thread[t].pc = "done" /\ FGt(thread[t].monthly, Zero)
                /\ FGe(thread[t].lump, Zero))
           => Answered(t) /\ "sip" \in thread[t].charts
                /\ IsDataUri(thread[t].response.monthly)
        /\ (Answered(t) /\ FEq(thread[t].lump, Zero))
           => thread[t].response.lump = PyNone
        /\ (Answered(t) /\ FEq(thread[t].monthly, Zero))
           => thread[t].response.monthly = PyNone

\* a request with a lump sum and no monthly amount, and one with a monthly
\* amount and no lump sum, have been answered
C3_Witness ==
    \E t, u \in Threads :
        /\ Answered(t) /\ FEq(thread[t].monthly, Zero)
        /\ IsDataUri(thread[t].response.lump)
        /\ thread[t].response.monthly = PyNone
        /\ Answered(u) /\ FEq(thread[u].lump, Zero)
        /\ IsDataUri(thread[u].response.monthly)
        /\ thread[u].response.lump = PyNone

(* C4: a request with both amounts 0 is answered 400 before any series is    *)
(* built or chart rendered; a request with a negative amount is rejected by  *)
(* validation and reaches no calculation; a request with both amounts >= 0   *)
(* and one > 0 is not rejected.                                              *)
C4_Rejections ==
    \A t \in Threads :
        thread[t].pc /= "idle" =>
            /\ (FEq(thread[t].lump, Zero) /\ FEq(thread[t].monthly, Zero))
               => /\ thread[t].pc = "done"
                  /\ thread[t].response.status = 400
                  /\ thread[t].built = {} /\ thread[t].charts = {}
            /\ (FLt(thread[t].lump, Zero) \/ FLt(thread[t].monthly, Zero))
               => /\ thread[t].pc = "done"
                  /\ thread[t].response.status = 422
                  /\ thread[t].built = {} /\ thread[t].charts = {}
            /\ (/\ FGe(thread[t].lump, Zero) /\ FGe(thread[t].monthly, Zero)
                /\ (FGt(thread[t].lump, Zero) \/ FGt(thread[t].monthly, Zero))
                /\ thread[t].pc = "done")
               => thread[t].response.status = 200

\* one request has been answered 400 for two zero amounts while another was
\* rejected for a negative amount or answered
C4_Witness ==
    \E t, u \in Threads :
        /\ thread[t].pc = "done" /\ thread[t].response.status = 400
        /\ FEq(thread[t].lump, Zero) /\ FEq(thread[t].monthly, Zero)
        /\ thread[u].pc = "done" /\ thread[u].response.status \in {200, 422}

\* the point a series must have at position k: the rate changes every 25
\* points, the year with every point
ExpectedPoint(fn, amount, libm, k) ==
    [Year |-> ((k - 1) % 25) + 1,
     Amount |-> Calculate(fn, amount,
                          <<Lit(10, 100), Lit(12, 100), Lit(15, 100)>>[((k - 1) \div 25) + 1],
                          ((k - 1) % 25) + 1, TRUE, libm),
     Rate |-> <<"10%", "12%", "15%">>[((k - 1) \div 25) + 1]]

ExpectedWith(libm) ==
    <<[k \in 1..75 |-> ExpectedPoint("compound_interest", LumpSum, libm, k)] \o <<>>,
      [k \in 1..75 |-> ExpectedPoint("sip_growth", MonthlySip, libm, k)] \o <<>>>>

\* the series the requests' amounts must give, computed once
ExpectedSeries ==
    [near |-> ExpectedWith("near"), down |-> ExpectedWith("down"),
     up |-> ExpectedWith("up")]

(* C5: the series the handler builds for a mode with an amount > 0 has one   *)
(* point for each rate of 10%, 12%, 15% and each year of 1..25, 75 points,   *)
(* rate by rate and within a rate year by year, and a point's amount is the  *)
(* calculator's value for the mode at that rate and year.                    *)
C5_SeriesPoints ==
    \A t \in Threads :
        /\ "lump" \in thread[t].built
           => (thread[t].mode = "lump"
               => /\ Len(thread[t].data) = 75
                  /\ thread[t].data = ExpectedSeries[clib][1])
        /\ "sip" \in thread[t].built
           => (thread[t].mode = "sip"
               => /\ Len(thread[t].data) = 75
                  /\ thread[t].data = ExpectedSeries[clib][2])

\* a request's monthly series has just been built
C5_Witness ==
    \E t \in Threads :
        /\ thread[t].mode = "sip"
        /\ thread[t].pc = "subplots"
        /\ Len(thread[t].data) = 75
        /\ thread[t].data[26].Year = 1
        /\ thread[t].data[26].Rate = "12%"

(* C9: under every interleaving of two requests, each step of a request's    *)
(* generate_graph acts on the figure the request created and on no other.    *)
(* plt.tight_layout() acts on pyplot's current figure, which is the figure   *)
(* created last, by whichever request: this does not hold.                   *)
C9_OwnFigureOnly ==
    \A i \in 1..Len(figs) : figs[i].users \subseteq {figs[i].owner}

(* C10: when the generate_graph calls made have finished, by returning an    *)
(* image or by raising, every figure and byte buffer they created is closed: *)
(* the open figures are those before the calls, none.  A call that raises    *)
(* never reaches plt.close(fig): this does not hold.                         *)
C10_FiguresClosed ==
    (\A t \in Threads : thread[t].pc = "idle")
    => /\ figs = <<>>
       /\ \A t \in Threads : thread[t].buffer /= "open"

====
